---- MODULE Spec2Model ----
(***************************************************************************)
(* A model of loki_jsonschema_resolver (src/main.py): the reference        *)
(* grammar, the value locator, the merge engine and the fixpoint scheduler *)
(* resolve_references.                                                     *)
(*                                                                         *)
(* Python strings are sequences of one-character strings.  JSON documents  *)
(* on disk are trees; while a handler runs, the dicts and lists it loaded  *)
(* are objects of a heap (a sequence of objects, the address of an object  *)
(* being its index), because the code mutates them in place and hands out  *)
(* aliases of them.                                                        *)
(***************************************************************************)
EXTENDS Integers, Sequences, FiniteSets, TLC

\* ------------------------------------------------------------------------
\* Strings
\* ------------------------------------------------------------------------
DigitSeq == <<"0", "1", "2", "3", "4", "5", "6", "7", "8", "9">>
UpperSeq == <<"A", "B", "C", "D", "E", "F", "G", "H", "I", "J", "K", "L", "M",
              "N", "O", "P", "Q", "R", "S", "T", "U", "V", "W", "X", "Y", "Z">>
LowerSeq == <<"a", "b", "c", "d", "e", "f", "g", "h", "i", "j", "k", "l", "m",
              "n", "o", "p", "q", "r", "s", "t", "u", "v", "w", "x", "y", "z">>
Range(s) == {s[i] : i \in 1..Len(s)}
IsDigit(c) == c \in Range(DigitSeq)
IsSpace(c) == c \in {" ", "\t", "\n", "\r", "\f"}
\* str.lower(), one character
LowerChar(c) ==
  IF c \in Range(UpperSeq)
  THEN LowerSeq[CHOOSE i \in 1..Len(UpperSeq) : UpperSeq[i] = c]
  ELSE c
\* str.lower()
Lower(s) == [i \in 1..Len(s) |-> LowerChar(s[i])]
\* sub in s
Contains(s, sub) ==
  \E i \in 1..(Len(s) - Len(sub) + 1) : SubSeq(s, i, i + Len(sub) - 1) = sub
\* s.startswith(p)
StartsWith(s, p) == Len(s) >= Len(p) /\ SubSeq(s, 1, Len(p)) = p
\* s[n:]
Drop(s, n) == SubSeq(s, n + 1, Len(s))
\* s.split(sep) for a one-character separator
RECURSIVE Split(_, _)
Split(s, sep) ==
  IF \A i \in 1..Len(s) : s[i] # sep
  THEN <<s>>
  ELSE LET i == CHOOSE i \in 1..Len(s) : s[i] = sep /\ \A j \in 1..(i - 1) : s[j] # sep
       IN <<SubSeq(s, 1, i - 1)>> \o Split(Drop(s, i), sep)
\* s.strip()
RECURSIVE Strip(_)
Strip(s) ==
  IF s = <<>> THEN s
  ELSE IF IsSpace(s[1]) THEN Strip(Drop(s, 1))
  ELSE IF IsSpace(s[Len(s)]) THEN Strip(SubSeq(s, 1, Len(s) - 1))
  ELSE s
RECURSIVE DigitsVal(_, _)
DigitsVal(s, acc) ==
  IF s = <<>> THEN acc
  ELSE IF s[1] = "_" THEN DigitsVal(Drop(s, 1), acc)
  ELSE DigitsVal(Drop(s, 1), acc * 10 + (CHOOSE i \in 1..10 : DigitSeq[i] = s[1]) - 1)
\* int(s): surrounding whitespace, an optional sign, digits with single
\* underscores between them; ok = FALSE is ValueError
ParseDigits(negative, body) ==
  IF /\ body # <<>>
     /\ IsDigit(body[1]) /\ IsDigit(body[Len(body)])
     /\ \A i \in 1..Len(body) : IsDigit(body[i]) \/ body[i] = "_"
     /\ \A i \in 1..(Len(body) - 1) : ~(body[i] = "_" /\ body[i + 1] = "_")
  THEN [ok |-> TRUE, n |-> IF negative THEN 0 - DigitsVal(body, 0) ELSE DigitsVal(body, 0)]
  ELSE [ok |-> FALSE, n |-> 0]
ParseStripped(st) ==
  IF st # <<>> /\ st[1] \in {"+", "-"}
  THEN ParseDigits(st[1] = "-", Drop(st, 1))
  ELSE ParseDigits(FALSE, st)
ParseInt(s) == ParseStripped(Strip(s))

\* The spellings the code and the documents use
cRef == <<"$", "r", "e", "f">>
cProperties == <<"p", "r", "o", "p", "e", "r", "t", "i", "e", "s">>
cEnum == <<"e", "n", "u", "m">>
cType == <<"t", "y", "p", "e">>
cString == <<"s", "t", "r", "i", "n", "g">>
cNumber == <<"n", "u", "m", "b", "e", "r">>
cNullable == <<"n", "u", "l", "l", "a", "b", "l", "e">>
cTitle == <<"t", "i", "t", "l", "e">>
cI6RefCollectionName == <<"i", "6", "R", "e", "f", "C", "o", "l", "l", "e", "c", "t",
                          "i", "o", "n", "N", "a", "m", "e">>

\* ------------------------------------------------------------------------
\* JSON values.  A tree: scalars, [t: list, e: elements], [t: map, k: keys in
\* insertion order, v: values].  In the heap a dict or list value is a
\* reference [t: ref, a: address] to the object that holds its entries.
\* ------------------------------------------------------------------------
Str(s) == [t |-> "str", s |-> s]
Num(n) == [t |-> "int", n |-> n]
\* a JSON number with a fraction: f tenths (10.5 is Float(105))
Float(f) == [t |-> "float", f |-> f]
Bool(b) == [t |-> "bool", b |-> b]
Null == [t |-> "null"]
List(es) == [t |-> "list", e |-> es]
Map(ks, vs) == [t |-> "map", k |-> ks, v |-> vs]
Ref(a) == [t |-> "ref", a |-> a]
EmptyMap == Map(<<>>, <<>>)

\* dict.get position of a key, 0 when absent
KeyIndex(m, key) ==
  IF \E i \in 1..Len(m.k) : m.k[i] = key
  THEN CHOOSE i \in 1..Len(m.k) : m.k[i] = key
  ELSE 0
HasKey(m, key) == KeyIndex(m, key) # 0
\* d[key] = val: an existing key keeps its place, a new one goes last
MapSet(m, key, val) ==
  IF HasKey(m, key)
  THEN Map(m.k, [m.v EXCEPT ![KeyIndex(m, key)] = val])
  ELSE Map(Append(m.k, key), Append(m.v, val))
\* d.update(other)
RECURSIVE MapUpdate(_, _)
MapUpdate(m, other) ==
  IF other.k = <<>> THEN m
  ELSE MapUpdate(MapSet(m, other.k[1], other.v[1]), Map(Tail(other.k), Tail(other.v)))

\* y, once x has been computed.  The statements of a handler run in order:
\* without this a value threaded through a loop is computed only where it is
\* first read, inside everything that was to come after it.
After(x, y) == IF x = x THEN y ELSE y

\* json.load: the tree becomes objects of the heap; [h: heap, v: value]
RECURSIVE Load(_, _)
RECURSIVE LoadItems(_, _, _)
Load(h, x) ==
  IF x.t = "map"
  THEN LET a == Len(h) + 1
           r == LoadItems(Append(h, EmptyMap), x.v, <<>>)
       IN [h |-> [r.h EXCEPT ![a] = Map(x.k, r.vs)], v |-> Ref(a)]
  ELSE IF x.t = "list"
  THEN LET a == Len(h) + 1
           r == LoadItems(Append(h, List(<<>>)), x.e, <<>>)
       IN [h |-> [r.h EXCEPT ![a] = List(r.vs)], v |-> Ref(a)]
  ELSE [h |-> h, v |-> x]
LoadItems(h, items, acc) ==
  IF items = <<>> THEN [h |-> h, vs |-> acc]
  ELSE LET r == Load(h, items[1])
       IN After(r, LoadItems(r.h, Tail(items), Append(acc, r.v)))

\* type(x) of a heap value
TypeOf(h, x) == IF x.t = "ref" THEN h[x.a].t ELSE x.t
IsDict(h, x) == TypeOf(h, x) = "map"
IsList(h, x) == TypeOf(h, x) = "list"
\* bool(x)
Truthy(h, x) ==
  CASE x.t = "ref" -> IF h[x.a].t = "map" THEN h[x.a].k # <<>> ELSE h[x.a].e # <<>>
    [] x.t = "str" -> x.s # <<>>
    [] x.t = "int" -> x.n # 0
    [] x.t = "float" -> x.f # 0
    [] x.t = "bool" -> x.b
    [] OTHER -> FALSE

\* The tree a heap value stands for; Circular when an object contains itself
\* (json.dump: ValueError, Circular reference detected)
Circular == [t |-> "circular"]
RECURSIVE Dump(_, _, _)
RECURSIVE DumpItems(_, _, _)
Dump(h, x, onpath) ==
  IF x.t # "ref" THEN x
  ELSE IF x.a \in onpath THEN Circular
  ELSE LET o == h[x.a]
           vs == DumpItems(h, IF o.t = "map" THEN o.v ELSE o.e, onpath \cup {x.a})
       IN IF \E i \in 1..Len(vs) : vs[i] = Circular THEN Circular
          ELSE IF o.t = "map" THEN Map(o.k, vs) ELSE List(vs)
DumpItems(h, items, onpath) ==
  [i \in 1..Len(items) |-> Dump(h, items[i], onpath)]

\* copy.deepcopy: fresh objects, shared and cyclic structure kept through the
\* memo (a function from old to new addresses); [h, v, memo]
RECURSIVE DeepCopy(_, _, _)
RECURSIVE DeepCopyItems(_, _, _, _)
DeepCopy(h, x, memo) ==
  IF x.t # "ref" THEN [h |-> h, v |-> x, memo |-> memo]
  ELSE IF x.a \in DOMAIN memo THEN [h |-> h, v |-> Ref(memo[x.a]), memo |-> memo]
  ELSE LET o == h[x.a]
           a == Len(h) + 1
           blank == IF o.t = "map" THEN EmptyMap ELSE List(<<>>)
           r == DeepCopyItems(Append(h, blank), IF o.t = "map" THEN o.v ELSE o.e,
                              memo @@ (x.a :> a), <<>>)
       IN [h |-> [r.h EXCEPT ![a] = IF o.t = "map" THEN Map(o.k, r.vs) ELSE List(r.vs)],
           v |-> Ref(a), memo |-> r.memo]
DeepCopyItems(h, items, memo, acc) ==
  IF items = <<>> THEN [h |-> h, vs |-> acc, memo |-> memo]
  ELSE LET r == DeepCopy(h, items[1], memo)
       IN After(r, DeepCopyItems(r.h, Tail(items), r.memo, Append(acc, r.v)))

\* ------------------------------------------------------------------------
\* The functions of src/main.py.  A result's err is "" or the name of the
\* exception raised.
\* ------------------------------------------------------------------------
NoErr == ""

\* evaluate_ref: [err, kind]
evaluate_ref(ref_value) ==
  IF ref_value.t # "str" THEN [err |-> "TypeError", kind |-> "NONE"]
  ELSE IF ref_value.s = <<>> THEN [err |-> "IndexError", kind |-> "NONE"]
  ELSE IF ref_value.s[1] = "." /\ "#" \in Range(ref_value.s)
  THEN [err |-> NoErr, kind |-> "EXTERNAL_INTERNAL"]
  ELSE IF ref_value.s[1] = "." THEN [err |-> NoErr, kind |-> "EXTERNAL"]
  ELSE IF ref_value.s[1] = "#" THEN [err |-> NoErr, kind |-> "INTERNAL"]
  ELSE [err |-> "ValueError", kind |-> "NONE"]

\* walk_dictionary's helper: depth-first, keys in insertion order, the first
\* key whose lowercase equals the target's; [found, path, value, err].
\* onpath holds the dicts being walked: entering one of them again never
\* returns (RecursionError).
RECURSIVE walk_dict_helper(_, _, _, _, _, _)
walk_dict_helper(h, a, i, path, target_key, onpath) ==
  IF i > Len(h[a].k)
  THEN [found |-> FALSE, path |-> <<>>, value |-> Null, err |-> NoErr]
  ELSE LET key == h[a].k[i]
           value == h[a].v[i]
           current_path == IF path # <<>> THEN path \o <<".">> \o key ELSE key
       IN IF Lower(key) = Lower(target_key)
          THEN [found |-> TRUE, path |-> current_path, value |-> value, err |-> NoErr]
          ELSE IF IsDict(h, value)
          THEN IF value.a \in onpath \cup {a}
               THEN [found |-> FALSE, path |-> <<>>, value |-> Null, err |-> "RecursionError"]
               ELSE LET match == walk_dict_helper(h, value.a, 1, current_path, target_key,
                                                  onpath \cup {a})
                    IN IF match.found \/ match.err # NoErr THEN match
                       ELSE walk_dict_helper(h, a, i + 1, path, target_key, onpath)
          ELSE walk_dict_helper(h, a, i + 1, path, target_key, onpath)

\* walk_dictionary: [err, path, value]
walk_dictionary_output(output) ==
  IF output.err # NoErr THEN [err |-> output.err, path |-> <<>>, value |-> Null]
  ELSE IF ~output.found THEN [err |-> "KeyError", path |-> <<>>, value |-> Null]
  ELSE [err |-> NoErr, path |-> output.path, value |-> output.value]
walk_dictionary(h, dictionary, target_key) ==
  IF ~IsDict(h, dictionary) THEN [err |-> "TypeError", path |-> <<>>, value |-> Null]
  ELSE walk_dictionary_output(walk_dict_helper(h, dictionary.a, 1, <<>>, target_key, {}))

\* walk_references: the values under $ref keys, depth first; [err, out].
\* schema.items() of anything but a dict is an AttributeError.
RECURSIVE walk_references(_, _)
RECURSIVE walk_references_items(_, _, _)
RECURSIVE walk_references_each(_, _)
walk_references(h, schema) ==
  IF ~IsDict(h, schema) THEN [err |-> "AttributeError", out |-> <<>>]
  ELSE [err |-> NoErr, out |-> walk_references_items(h, schema.a, 1)]
walk_references_items(h, a, i) ==
  IF i > Len(h[a].k) THEN <<>>
  ELSE LET key == h[a].k[i]
           value == h[a].v[i]
           here == IF key = cRef THEN <<value>>
                   ELSE IF IsDict(h, value) THEN walk_references(h, value).out
                   ELSE IF IsList(h, value)
                           /\ \A j \in 1..Len(h[value.a].e) : IsDict(h, h[value.a].e[j])
                   THEN walk_references_each(h, h[value.a].e)
                   ELSE <<>>
       IN here \o walk_references_items(h, a, i + 1)
walk_references_each(h, es) ==
  IF es = <<>> THEN <<>>
  ELSE walk_references(h, es[1]).out \o walk_references_each(h, Tail(es))

\* extract_json_schema_from_oas: the properties sub-object when there is one
extract_json_schema_from_oas(h, arb_object) ==
  IF Len(h[arb_object.a].k) # 0 /\ HasKey(h[arb_object.a], cProperties)
  THEN h[arb_object.a].v[KeyIndex(h[arb_object.a], cProperties)]
  ELSE arb_object

\* _is_targeting_list_item: [has, n, keys]; has = FALSE is None
is_targeting_list_item(keys_from_ref_string) ==
  LET last == IF keys_from_ref_string = <<>> THEN [ok |-> FALSE, n |-> 0]
              ELSE ParseInt(keys_from_ref_string[Len(keys_from_ref_string)])
  IN IF last.ok
     THEN [has |-> TRUE, n |-> last.n,
           keys |-> SubSeq(keys_from_ref_string, 1, Len(keys_from_ref_string) - 1)]
     ELSE [has |-> FALSE, n |-> 0, keys |-> keys_from_ref_string]

\* seq[n] of a list of length len: negative positions count from the end
InRange(len, n) == 0 - len <= n /\ n < len
At(es, n) == IF n >= 0 THEN es[n + 1] ELSE es[Len(es) + n + 1]

\* current_output[key] for a string key: [err, v]
SubscriptKey(h, cur, key) ==
  IF IsDict(h, cur)
  THEN IF HasKey(h[cur.a], key)
       THEN [err |-> NoErr, v |-> h[cur.a].v[KeyIndex(h[cur.a], key)]]
       ELSE [err |-> "KeyError", v |-> Null]
  ELSE [err |-> "TypeError", v |-> Null]

\* current_output[list_index] for an integer: [err, v]
SubscriptInt(h, cur, n) ==
  IF IsList(h, cur)
  THEN IF InRange(Len(h[cur.a].e), n)
       THEN [err |-> NoErr, v |-> At(h[cur.a].e, n)]
       ELSE [err |-> "IndexError", v |-> Null]
  ELSE IF IsDict(h, cur) THEN [err |-> "KeyError", v |-> Null]
  ELSE IF cur.t = "str"
  THEN IF InRange(Len(cur.s), n)
       THEN [err |-> NoErr, v |-> Str(<<At(cur.s, n)>>)]
       ELSE [err |-> "IndexError", v |-> Null]
  ELSE [err |-> "TypeError", v |-> Null]

\* the traversal loop of fetch_value_from_ref: [err, v]
RECURSIVE Traverse(_, _, _, _)
Traverse(h, current_output, keys, list_index) ==
  IF keys = <<>> THEN [err |-> NoErr, v |-> current_output]
  ELSE IF IsList(h, current_output) /\ list_index.has /\ list_index.n # 0
  THEN Traverse(h, current_output, Tail(keys), list_index)
  ELSE LET r == SubscriptKey(h, current_output, keys[1])
       IN IF r.err # NoErr THEN r ELSE Traverse(h, r.v, Tail(keys), list_index)

\* fetch_value_from_ref: [err, h, v]; v aliases an object of data_dict, or is
\* the fresh enum fragment
FetchFail(h, e) == [err |-> e, h |-> h, v |-> Null]
FetchOk(h, v) == [err |-> NoErr, h |-> h, v |-> v]
\* the enum fragment with the type left at its default
enum_fragment_default_type(h, es, n) ==
  IF ~InRange(Len(es), n) THEN FetchFail(h, "IndexError")
  ELSE FetchOk(h \o <<List(<<At(es, n)>>),
                      Map(<<cEnum, cType>>, <<Ref(Len(h) + 1), Str(cString)>>)>>,
               Ref(Len(h) + 2))
\* the enum fragment {"enum": [es[n]], "type": ...}
enum_fragment(h, es, n) ==
  IF ~InRange(Len(es), n) THEN FetchFail(h, "IndexError")
  ELSE FetchOk(h \o <<List(<<At(es, n)>>),
                      Map(<<cEnum, cType>>,
                          <<Ref(Len(h) + 1),
                            Str(IF \A i \in 1..Len(es) : es[i].t = "int"
                                THEN cNumber ELSE cString)>>)>>,
               Ref(Len(h) + 2))
\* current_output[list_index] returned r
fetch_indexed(h, r) == IF r.err # NoErr THEN FetchFail(h, r.err) ELSE FetchOk(h, r.v)
\* the traversal returned t
fetch_traversed(h, ref_string, list_index, t) ==
  IF t.err # NoErr THEN FetchFail(h, t.err)
  ELSE IF Contains(Lower(ref_string.s), <<"/">> \o cEnum \o <<"/">>) /\ list_index.has
  THEN IF ~IsList(h, t.v) THEN FetchFail(h, "TypeError")
       ELSE enum_fragment(h, h[t.v.a].e, list_index.n)
  ELSE IF list_index.has THEN fetch_indexed(h, SubscriptInt(h, t.v, list_index.n))
  ELSE FetchOk(h, t.v)
\* _is_targeting_list_item returned list_index
fetch_keys(h, ref_string, data_dict, list_index) ==
  fetch_traversed(h, ref_string, list_index,
                  Traverse(h, data_dict, list_index.keys, list_index))
\* the character the pattern [^a-zA-Z0-9\s] does not match
IsPlain(c) == c \in Range(LowerSeq) \/ c \in Range(UpperSeq) \/ IsDigit(c) \/ IsSpace(c)
fetch_value_from_ref(h, ref_string, data_dict) ==
  IF ref_string.t = "str" /\ ~StartsWith(ref_string.s, <<"#">>) THEN FetchFail(h, "ValueError")
  ELSE IF ref_string.t = "int" THEN FetchFail(h, "ValueError")
  ELSE IF ref_string.t = "str" /\ ~IsPlain(ref_string.s[Len(ref_string.s)])
  THEN FetchFail(h, "ValueError")
  ELSE IF ref_string.t # "str"
  THEN \* ref_string[2:].split("/") of a value that is no string
       FetchFail(h, IF ref_string.t = "ref" /\ h[ref_string.a].t = "list"
                    THEN "AttributeError" ELSE "TypeError")
  ELSE fetch_keys(h, ref_string, data_dict,
                  is_targeting_list_item(Split(Drop(ref_string.s, 2), "/")))

\* find_sub_schema_by_ref_value: the sub_schema of the first binding whose $ref
\* equals ref_value; found = FALSE is None
find_sub_schema_by_ref_value(ref_schemas, ref_value) ==
  IF \E i \in 1..Len(ref_schemas) : ref_schemas[i].ref = ref_value
  THEN [found |-> TRUE,
        v |-> ref_schemas[CHOOSE i \in 1..Len(ref_schemas) :
                            /\ ref_schemas[i].ref = ref_value
                            /\ \A j \in 1..(i - 1) : ref_schemas[j].ref # ref_value].sub_schema]
  ELSE [found |-> FALSE, v |-> Null]

fields_to_keep ==
  <<cNullable, cTitle, <<"d", "e", "s", "c", "r", "i", "p", "t", "i", "o", "n">>,
    <<"x", "-", "v", "i", "r", "t", "u", "a", "l">>, <<"f", "o", "r", "m", "a", "t">>>>

\* cache_json_properties: [err, cached]; an empty cached is None.  A field is
\* kept when walk_dictionary finds it and its value is truthy.
RECURSIVE cache_json_properties_loop(_, _, _, _)
\* walk_dictionary(arb_object, field) returned w
cache_field(h, arb_object, fields, cached, w) ==
  IF w.err = "KeyError"
  THEN cache_json_properties_loop(h, arb_object, Tail(fields), cached)
  ELSE IF w.err # NoErr THEN [err |-> w.err, cached |-> cached]
  ELSE IF Truthy(h, w.value)
  THEN cache_json_properties_loop(h, arb_object, Tail(fields),
                                  MapSet(cached, fields[1], w.value))
  ELSE cache_json_properties_loop(h, arb_object, Tail(fields), cached)
cache_json_properties_loop(h, arb_object, fields, cached) ==
  IF fields = <<>> THEN [err |-> NoErr, cached |-> cached]
  ELSE cache_field(h, arb_object, fields, cached, walk_dictionary(h, arb_object, fields[1]))
cache_json_properties(h, arb_object) ==
  cache_json_properties_loop(h, arb_object, fields_to_keep, EmptyMap)

\* One element of the sequence given to dict.update: a pair; [err, k, v].
\* A key that is no string (update([[1, 2]])) is not a key of a JSON document
\* as the model holds them: NonStringKey.
UpdatePair(h, e) ==
  LET Bad(x) == [err |-> x, k |-> <<>>, v |-> Null]
  IN IF IsList(h, e)
     THEN LET es == h[e.a].e
          IN IF Len(es) # 2 THEN Bad("ValueError")
             ELSE IF es[1].t = "ref" THEN Bad("TypeError")
             ELSE IF es[1].t # "str" THEN Bad("NonStringKey")
             ELSE [err |-> NoErr, k |-> es[1].s, v |-> es[2]]
     ELSE IF IsDict(h, e)
     THEN LET ks == h[e.a].k
          IN IF Len(ks) # 2 THEN Bad("ValueError")
             ELSE [err |-> NoErr, k |-> ks[1], v |-> Str(ks[2])]
     ELSE IF e.t = "str"
     THEN IF Len(e.s) # 2 THEN Bad("ValueError")
          ELSE [err |-> NoErr, k |-> <<e.s[1]>>, v |-> Str(<<e.s[2]>>)]
     ELSE Bad("TypeError")
RECURSIVE UpdatePairs(_, _, _)
UpdatePairs(h, m, es) ==
  IF es = <<>> THEN [err |-> NoErr, m |-> m]
  ELSE LET p == UpdatePair(h, es[1])
       IN IF p.err # NoErr THEN [err |-> p.err, m |-> m]
          ELSE UpdatePairs(h, MapSet(m, p.k, p.v), Tail(es))
\* m.update(x) for an arbitrary x: the entries of a dict, the pairs of a
\* sequence; [err, m]
DictUpdateFrom(h, m, x) ==
  IF IsDict(h, x) THEN [err |-> NoErr, m |-> MapUpdate(m, h[x.a])]
  ELSE IF IsList(h, x) THEN UpdatePairs(h, m, h[x.a].e)
  ELSE IF x.t = "str"
  THEN IF x.s = <<>> THEN [err |-> NoErr, m |-> m] ELSE [err |-> "ValueError", m |-> m]
  ELSE [err |-> "TypeError", m |-> m]

\* the keys_to_keep loop of walk_and_merge_references: [err, h, kept]
RECURSIVE kept_keys_loop(_, _, _, _)
\* kept_keys.update(c.v) returned u
kept_keys_updated(h, a, keys_to_keep, kept_keys, u) ==
  IF u.err # NoErr THEN [err |-> u.err, h |-> h, kept |-> kept_keys]
  ELSE kept_keys_loop(h, a, Tail(keys_to_keep), u.m)
\* copy.deepcopy(arb_object[key_to_keep]) returned c
kept_keys_copied(a, keys_to_keep, kept_keys, c) ==
  kept_keys_updated(c.h, a, keys_to_keep, kept_keys, DictUpdateFrom(c.h, kept_keys, c.v))
kept_keys_loop(h, a, keys_to_keep, kept_keys) ==
  IF keys_to_keep = <<>> THEN [err |-> NoErr, h |-> h, kept |-> kept_keys]
  ELSE IF ~HasKey(h[a], keys_to_keep[1])
  THEN kept_keys_loop(h, a, Tail(keys_to_keep), kept_keys)
  ELSE kept_keys_copied(a, keys_to_keep, kept_keys,
                        DeepCopy(h, h[a].v[KeyIndex(h[a], keys_to_keep[1])], <<>>))

\* h[a].update(m)
UpdateAt(h, a, m) == [h EXCEPT ![a] = MapUpdate(@, m)]
\* h[a].clear(), then h[a].update(h[b]): the entries of b are read after the
\* clear
ClearAndUpdate(h, a, b) == [h EXCEPT ![a] = IF a = b THEN EmptyMap ELSE h[b]]
\* if m: h[a].update(m)
UpdateIfAny(h, a, m) == IF m.k # <<>> THEN UpdateAt(h, a, m) ELSE h
\* clear, then update with the fragment, the kept keys and the cached fields
Rebuild(h, a, fragment, kept_keys, cached_fields) ==
  UpdateIfAny(UpdateIfAny(ClearAndUpdate(h, a, fragment), a, kept_keys),
              a, cached_fields)

\* The merge at a reference site, the dict at address a whose $ref is value.
\* [err, h]
merge_kept(a, ref_schema, cached_fields, kk) ==
  IF kk.err # NoErr THEN [err |-> kk.err, h |-> kk.h]
  ELSE [err |-> NoErr, h |-> Rebuild(kk.h, a, ref_schema.a, kk.kept, cached_fields)]
merge_cached(h, a, ref_schema, keys_to_keep, cached_fields) ==
  IF cached_fields.err # NoErr THEN [err |-> cached_fields.err, h |-> h]
  ELSE merge_kept(a, ref_schema, cached_fields.cached,
                  kept_keys_loop(h, a, keys_to_keep, EmptyMap))
merge_copied(a, ref_schema, keys_to_keep, c) ==
  merge_cached(c.h, a, ref_schema, keys_to_keep, cache_json_properties(c.h, c.v))
merge_found(h, a, ref_schema, keys_to_keep) ==
  IF ~(ref_schema.found /\ Truthy(h, ref_schema.v) /\ IsDict(h, ref_schema.v))
  THEN [err |-> NoErr, h |-> h]
  ELSE merge_copied(a, ref_schema.v, keys_to_keep, DeepCopy(h, Ref(a), <<>>))
MergeSite(h, a, value, ref_schemas, keys_to_keep) ==
  merge_found(h, a, find_sub_schema_by_ref_value(ref_schemas, value), keys_to_keep)

\* walk_and_merge_references: [err, h].  The loop runs over a copy of the
\* dict's items taken before anything is merged, so what a merge puts into a
\* site is not walked in the same call.
RECURSIVE walk_and_merge_references(_, _, _, _)
RECURSIVE walk_and_merge_items(_, _, _, _, _, _)
RECURSIVE walk_and_merge_each(_, _, _)
walk_and_merge_references(h, arb_object, ref_schemas, keys_to_keep) ==
  IF IsDict(h, arb_object)
  THEN walk_and_merge_items(h, arb_object.a, h[arb_object.a], 1, ref_schemas, keys_to_keep)
  ELSE [err |-> NoErr, h |-> h]
\* the body of the loop for one item
walk_and_merge_item(h, a, key, value, ref_schemas, keys_to_keep) ==
  IF key = cRef THEN MergeSite(h, a, value, ref_schemas, keys_to_keep)
  ELSE IF IsDict(h, value)
  THEN walk_and_merge_references(h, value, ref_schemas, <<cI6RefCollectionName>>)
  ELSE IF IsList(h, value) THEN walk_and_merge_each(h, h[value.a].e, ref_schemas)
  ELSE [err |-> NoErr, h |-> h]
walk_and_merge_next(r, a, items, i, ref_schemas, keys_to_keep) ==
  IF r.err # NoErr THEN r
  ELSE walk_and_merge_items(r.h, a, items, i + 1, ref_schemas, keys_to_keep)
walk_and_merge_items(h, a, items, i, ref_schemas, keys_to_keep) ==
  IF i > Len(items.k) THEN [err |-> NoErr, h |-> h]
  ELSE walk_and_merge_next(
         walk_and_merge_item(h, a, items.k[i], items.v[i], ref_schemas, keys_to_keep),
         a, items, i, ref_schemas, keys_to_keep)
walk_and_merge_each_next(r, es, ref_schemas) ==
  IF r.err # NoErr THEN r ELSE walk_and_merge_each(r.h, Tail(es), ref_schemas)
walk_and_merge_each(h, es, ref_schemas) ==
  IF es = <<>> THEN [err |-> NoErr, h |-> h]
  ELSE walk_and_merge_each_next(
         walk_and_merge_references(h, es[1], ref_schemas, <<cI6RefCollectionName>>),
         es, ref_schemas)

\* ------------------------------------------------------------------------
\* Paths and the file system.  A path is a string; files maps the absolute
\* path of each file to the JSON document it holds.
\* ------------------------------------------------------------------------
\* the components of a path: pathlib drops empty and "." components
PathParts(s) == SelectSeq(Split(s, "/"), LAMBDA part : part # <<>> /\ part # <<".">>)
\* Path.resolve(strict=False) of the components of an absolute path
RECURSIVE ResolveParts(_, _)
ResolveParts(parts, acc) ==
  IF parts = <<>> THEN acc
  ELSE IF parts[1] = <<".", ".">>
  THEN ResolveParts(Tail(parts), IF acc = <<>> THEN acc ELSE SubSeq(acc, 1, Len(acc) - 1))
  ELSE ResolveParts(Tail(parts), Append(acc, parts[1]))
RECURSIVE JoinParts(_)
JoinParts(parts) ==
  IF parts = <<>> THEN <<>> ELSE <<"/">> \o parts[1] \o JoinParts(Tail(parts))
\* str(Path) of the components of an absolute path
PathStr(parts) == IF parts = <<>> THEN <<"/">> ELSE JoinParts(parts)
\* Path(file_path).resolve().parent
ParentOf(file_path) ==
  LET parts == ResolveParts(PathParts(file_path), <<>>)
  IN IF parts = <<>> THEN parts ELSE SubSeq(parts, 1, Len(parts) - 1)
\* get_path_relative_to, as a string; current_location is given by its components
get_path_relative_to(pointing_to, current_location) ==
  PathStr(ResolveParts(current_location \o PathParts(pointing_to), <<>>))

Corrupt == [t |-> "corrupt"]
\* open(path) and json.load: [err, doc]
OpenLoad(fs, path) ==
  IF path \in DOMAIN fs
  THEN IF fs[path] = Corrupt THEN [err |-> "JSONDecodeError", doc |-> Null]
       ELSE [err |-> NoErr, doc |-> fs[path]]
  ELSE IF \E f \in DOMAIN fs : StartsWith(f, IF path = <<"/">> THEN path ELSE path \o <<"/">>)
  THEN [err |-> "IsADirectoryError", doc |-> Null]
  ELSE [err |-> "FileNotFoundError", doc |-> Null]

\* ------------------------------------------------------------------------
\* resolve_references: the body of its for loop, for one file
\* ------------------------------------------------------------------------
Unbound == [t |-> "unbound"]

\* The result of the loop over refs_found: [err, h, sub_schemas, oas]; a
\* binding is [ref, sub_schema].
LoopResult(e, h, sub_schemas, oas) ==
  [err |-> e, h |-> h, sub_schemas |-> sub_schemas, oas |-> oas]
Binding(ref_link, sub_schema) == [ref |-> ref_link, sub_schema |-> sub_schema]

\* The loop over refs_found.  env holds what the loop does not change: the
\* file system fs, file_path and the loaded source document src.  oas is the
\* value of the local oas_spec (Unbound before its first assignment).
RECURSIVE refs_loop(_, _, _, _, _)
\* INTERNAL, after fetch_value_from_ref returned f
internal_bound(env, refs, sub_schemas, oas, h, f) ==
  IF f.err # NoErr THEN LoopResult(f.err, h, sub_schemas, oas)
  ELSE refs_loop(env, f.h, Tail(refs), Append(sub_schemas, Binding(refs[1], f.v)), oas)
\* EXTERNAL_INTERNAL, after the second fetch_value_from_ref returned second
external_bound(env, refs, sub_schemas, oas_spec, second) ==
  IF second.err # NoErr THEN LoopResult(second.err, second.h, sub_schemas, oas_spec)
  ELSE refs_loop(env, second.h, Tail(refs),
                 Append(sub_schemas, Binding(refs[1], second.v)), oas_spec)
\* EXTERNAL_INTERNAL, after the first fetch_value_from_ref returned first
external_fetched(env, refs, sub_schemas, location, oas_spec, first) ==
  IF first.err # NoErr THEN LoopResult(first.err, first.h, sub_schemas, oas_spec)
  ELSE IF ~IsDict(first.h, oas_spec)
  THEN \* arb_object.keys()
       LoopResult("AttributeError", first.h, sub_schemas, oas_spec)
  ELSE LET sub_schema == extract_json_schema_from_oas(first.h, oas_spec)
           has_refs == walk_references(first.h, sub_schema)
       IN IF has_refs.err # NoErr
          THEN LoopResult(has_refs.err, first.h, sub_schemas, oas_spec)
          ELSE IF has_refs.out # <<>>
          THEN \* deferred: break
               LoopResult(NoErr, first.h, sub_schemas, oas_spec)
          ELSE external_bound(env, refs, sub_schemas, oas_spec,
                              fetch_value_from_ref(first.h, location, sub_schema))
\* EXTERNAL_INTERNAL, after json.load returned loaded
external_loaded(env, refs, sub_schemas, location, loaded) ==
  external_fetched(env, refs, sub_schemas, location, loaded.v,
                   fetch_value_from_ref(loaded.h, location, loaded.v))
\* EXTERNAL_INTERNAL, after open
external_opened(env, h, refs, sub_schemas, oas, location, opened) ==
  IF opened.err # NoErr THEN LoopResult(opened.err, h, sub_schemas, oas)
  ELSE external_loaded(env, refs, sub_schemas, location, Load(h, opened.doc))
\* ref_link.split("#")[0], resolved against the directory of file_path
referenced_oas_absolute_path(ref_link, file_path) ==
  get_path_relative_to(Split(ref_link.s, "#")[1], ParentOf(file_path))
\* f'#{ref_link.split("#")[-1]}'
sub_schema_location_in_oas(ref_link) ==
  Str(<<"#">> \o Split(ref_link.s, "#")[Len(Split(ref_link.s, "#"))])
\* EXTERNAL_INTERNAL
external_internal(env, h, refs, sub_schemas, oas) ==
  external_opened(env, h, refs, sub_schemas, oas, sub_schema_location_in_oas(refs[1]),
                  OpenLoad(env.fs, referenced_oas_absolute_path(refs[1], env.file_path)))
\* one ref_link, after evaluate_ref returned kind
ref_link_step(env, h, refs, sub_schemas, oas, kind) ==
  IF kind.err # NoErr THEN LoopResult(kind.err, h, sub_schemas, oas)
  ELSE IF kind.kind = "INTERNAL"
  THEN internal_bound(env, refs, sub_schemas, oas, h,
                      fetch_value_from_ref(h, refs[1], env.src))
  ELSE IF kind.kind = "EXTERNAL_INTERNAL"
  THEN external_internal(env, h, refs, sub_schemas, oas)
  ELSE \* EXTERNAL: neither branch of the code takes it
       refs_loop(env, h, Tail(refs), sub_schemas, oas)
refs_loop(env, h, refs, sub_schemas, oas) ==
  IF refs = <<>> THEN LoopResult(NoErr, h, sub_schemas, oas)
  ELSE ref_link_step(env, h, refs, sub_schemas, oas, evaluate_ref(refs[1]))

DumpBindings(h, sub_schemas) ==
  [i \in 1..Len(sub_schemas) |->
     Binding(sub_schemas[i].ref, Dump(h, sub_schemas[i].sub_schema, {}))]
DumpOas(h, oas) == IF oas = Unbound THEN Unbound ELSE Dump(h, oas, {})
\* the local oas_spec of the iterations before, as an object of the heap
LoadOas(h, oas) == IF oas = Unbound THEN [h |-> h, v |-> Unbound] ELSE Load(h, oas)

\* One iteration of `for file_path in deferred_files`, from the state of the
\* file system and of oas_spec:
\*   err      the exception that ends the run, or ""
\*   fs       the file system afterwards
\*   oas      oas_spec afterwards
\*   remove   whether file_path is popped from deferred_files
\*   refs     refs_found
\*   bindings sub_schemas, as the loop over refs_found left it
\*   merged   whether walk_and_merge_references and the save ran
Outcome(e, fs, oas, remove, refs, bindings, merged) ==
  [err |-> e, fs |-> fs, oas |-> oas, remove |-> remove,
   refs |-> refs, bindings |-> bindings, merged |-> merged]
\* after save_dict_to_json wrote saved
analyse_saved(o, file_path, h, oas, saved) ==
  IF saved = Circular
  THEN \* json.dump fails after open(file_path, "w") has emptied the file
       [o EXCEPT !.err = "ValueError", !.fs[file_path] = Corrupt, !.merged = TRUE]
  ELSE IF oas = Unbound
  THEN [o EXCEPT !.err = "UnboundLocalError", !.fs[file_path] = saved, !.merged = TRUE]
  ELSE LET still_refs_found == walk_references(h, oas)
       IN [o EXCEPT !.err = still_refs_found.err, !.fs[file_path] = saved, !.merged = TRUE,
                    !.remove = still_refs_found.err = NoErr /\ still_refs_found.out = <<>>]
\* after walk_and_merge_references returned resolved
analyse_merged(o, file_path, src, oas, resolved) ==
  IF resolved.err # NoErr THEN [o EXCEPT !.err = resolved.err]
  ELSE analyse_saved(o, file_path, resolved.h, oas, Dump(resolved.h, src, {}))
\* after the loop over refs_found returned loop; o is the outcome so far
analyse_looped(o, file_path, src, loop) ==
  IF loop.err # NoErr THEN [o EXCEPT !.err = loop.err]
  ELSE IF loop.sub_schemas = <<>> THEN o
  ELSE analyse_merged(o, file_path, src, loop.oas,
                      walk_and_merge_references(loop.h, src, loop.sub_schemas,
                                                <<cI6RefCollectionName>>))
analyse_bindings(fs, file_path, src, refs, loop) ==
  analyse_looped(Outcome(NoErr, fs, DumpOas(loop.h, loop.oas), FALSE, refs,
                         DumpBindings(loop.h, loop.sub_schemas), FALSE),
                 file_path, src, loop)
\* after walk_references(source_oas_spec) returned refs_found
analyse_refs(fs, file_path, oas0, lo, src, refs_found) ==
  IF refs_found.err # NoErr
  THEN Outcome(refs_found.err, fs, oas0, FALSE, <<>>, <<>>, FALSE)
  ELSE IF refs_found.out = <<>> THEN Outcome(NoErr, fs, oas0, TRUE, <<>>, <<>>, FALSE)
  ELSE analyse_bindings(fs, file_path, src, refs_found.out,
                        refs_loop([fs |-> fs, file_path |-> file_path, src |-> src],
                                  lo.h, refs_found.out, <<>>, lo.v))
\* after json.load returned the source document l0
analyse_loaded(fs, file_path, oas0, l0) ==
  analyse_refs(fs, file_path, oas0, LoadOas(l0.h, oas0), l0.v, walk_references(l0.h, l0.v))
\* after open(file_path)
analyse_opened(fs, file_path, oas0, opened) ==
  IF opened.err # NoErr THEN Outcome(opened.err, fs, oas0, FALSE, <<>>, <<>>, FALSE)
  ELSE analyse_loaded(fs, file_path, oas0, Load(<<>>, opened.doc))
analyse(fs, file_path, oas0) ==
  analyse_opened(fs, file_path, oas0, OpenLoad(fs, file_path))

\* ------------------------------------------------------------------------
\* The documents and file sets the model draws
\* ------------------------------------------------------------------------
cJson == <<".", "j", "s", "o", "n">>
FileNames == <<<<"a">>, <<"b">>, <<"c">>>>
\* the files are those of the directory /d
PathOf(name) == PathStr(<<<<"d">>, name \o cJson>>)
\* "./<name>.json"
RelOf(name) == <<".", "/">> \o name \o cJson
\* "#/s1/.../sn"
Pointer(segments) == <<"#">> \o JoinParts(segments)
TypeString == Map(<<cType>>, <<Str(cString)>>)
TypeNumber == Map(<<cType>>, <<Str(cNumber)>>)
RefTo(ref) == Map(<<cRef>>, <<Str(ref)>>)

\* documents without a reference to another file
OwnDocs ==
  { TypeString,
    \* the example of the specification: {"a": {"$ref": "#/defs/x"}, "defs": {"x": {...}}}
    Map(<<<<"a">>, <<"d", "e", "f", "s">>>>,
        <<RefTo(Pointer(<<<<"d", "e", "f", "s">>, <<"x">>>>)), Map(<<<<"x">>>>, <<TypeString>>)>>),
    \* {"q": {"type": "string"}}
    Map(<<<<"q">>>>, <<TypeString>>),
    \* {"q": "s"}
    Map(<<<<"q">>>>, <<Str(<<"s">>)>>),
    \* {"properties": {"q": {"type": "string"}}, "q": {"type": "number"}}
    Map(<<cProperties, <<"q">>>>, <<Map(<<<<"q">>>>, <<TypeString>>), TypeNumber>>),
    \* {"properties": {"q": {"type": "string"}}, "q": {"$ref": "#/properties/q"}}
    Map(<<cProperties, <<"q">>>>,
        <<Map(<<<<"q">>>>, <<TypeString>>), RefTo(Pointer(<<cProperties, <<"q">>>>))>>) }
\* documents with a reference to the file named other
DocsInto(other) ==
  { \* {"q": {"$ref": "./other.json#/q"}}
    Map(<<<<"q">>>>, <<RefTo(RelOf(other) \o Pointer(<<<<"q">>>>))>>),
    \* {"q": {"$ref": "./other.json"}}
    Map(<<<<"q">>>>, <<RefTo(RelOf(other))>>) }
DocsOf(name) ==
  OwnDocs \cup UNION {DocsInto(FileNames[i]) : i \in {j \in 1..Len(FileNames) : FileNames[j] # name}}

Paths == {PathOf(FileNames[i]) : i \in 1..Len(FileNames)}
FileSystems == {fs \in [Paths -> UNION {DocsOf(n) : n \in Range(FileNames)}] :
                  \A n \in Range(FileNames) : fs[PathOf(n)] \in DocsOf(n)}
\* the orders in which find_files_with_extension may list the files
Orders(S) == {o \in [1..Cardinality(S) -> S] : \A i, j \in 1..Cardinality(S) : o[i] = o[j] => i = j}

\* the pass counter stops counting here
MaxPasses == 4

\* ------------------------------------------------------------------------
\* State
\* ------------------------------------------------------------------------
VARIABLES
  files,           \* the file system
  deferred_files,  \* resolve_references: the list the loops run over
  pc,              \* "while": at the while test; "for": at the for loop's next
                   \* item; "done": returned; "error": an exception ended the run
  idx,             \* the position of the for loop's iterator in deferred_files
  oas_spec,        \* the local oas_spec, Unbound before its first assignment
  err,             \* the exception that ended the run
  file_path,       \* the file the last iteration analysed
  refs_found,      \* its references
  sub_schemas,     \* the bindings gathered for it
  merged,          \* whether it was merged and saved
  removed,         \* whether it was popped from deferred_files
  passes,          \* how many times the for loop was entered (up to MaxPasses)
  pass_start,      \* deferred_files, files and oas_spec when the current pass began
  visited,         \* the files analysed in the current pass, in order
  call,            \* a function of the module called on its own: its name and arguments
  ret              \* what that call returned, Pending before it has

vars == <<files, deferred_files, pc, idx, oas_spec, err, file_path, refs_found,
          sub_schemas, merged, removed, passes, pass_start, visited, call, ret>>

NoFile == <<>>
NoPass == [deferred_files |-> <<>>, files |-> <<>>, oas_spec |-> Unbound]
NoCall == [fn |-> "none"]
Pending == [err |-> "pending"]

Init ==
  /\ files \in FileSystems
  /\ deferred_files \in Orders(DOMAIN files)
  /\ pc = "while"
  /\ idx = 0
  /\ oas_spec = Unbound
  /\ err = NoErr
  /\ file_path = NoFile
  /\ refs_found = <<>>
  /\ sub_schemas = <<>>
  /\ merged = FALSE
  /\ removed = FALSE
  /\ passes = 0
  /\ pass_start = NoPass
  /\ visited = <<>>
  /\ call = NoCall
  /\ ret = Pending

\* list.pop(index) of the 1-based position i
Pop(list, i) == SubSeq(list, 1, i - 1) \o SubSeq(list, i + 1, Len(list))

\* `while deferred_files:` holds: the for loop starts over the list
EnterFor ==
  /\ pc = "while"
  /\ deferred_files # <<>>
  /\ pc' = "for"
  /\ idx' = 0
  /\ passes' = IF passes < MaxPasses THEN passes + 1 ELSE passes
  /\ pass_start' = [deferred_files |-> deferred_files, files |-> files, oas_spec |-> oas_spec]
  /\ visited' = <<>>
  /\ UNCHANGED <<files, deferred_files, oas_spec, err, file_path, refs_found,
                 sub_schemas, merged, removed, call, ret>>

\* `while deferred_files:` fails: resolve_references returns
Return ==
  /\ pc = "while"
  /\ deferred_files = <<>>
  /\ pc' = "done"
  /\ UNCHANGED <<files, deferred_files, idx, oas_spec, err, file_path, refs_found,
                 sub_schemas, merged, removed, passes, pass_start, visited, call, ret>>

\* the for loop's iterator is exhausted
ExitFor ==
  /\ pc = "for"
  /\ idx >= Len(deferred_files)
  /\ pc' = "while"
  /\ UNCHANGED <<files, deferred_files, idx, oas_spec, err, file_path, refs_found,
                 sub_schemas, merged, removed, passes, pass_start, visited, call, ret>>

\* the body of the for loop ran for the file current with the outcome r
Iteration(current, r) ==
  /\ file_path' = current
  /\ visited' = Append(visited, current)
  /\ idx' = idx + 1
  /\ files' = r.fs
  /\ oas_spec' = r.oas
  /\ refs_found' = r.refs
  /\ sub_schemas' = r.bindings
  /\ merged' = r.merged
  /\ removed' = r.remove
  /\ err' = r.err
  /\ pc' = IF r.err # NoErr THEN "error" ELSE "for"
  /\ deferred_files' = IF r.remove THEN Pop(deferred_files, idx + 1) ELSE deferred_files
  /\ UNCHANGED <<passes, pass_start, call, ret>>

\* one iteration of the for loop: the iterator yields deferred_files[idx]
\* (0-based) and moves on, then the body runs
AnalyseFile ==
  /\ pc = "for"
  /\ idx < Len(deferred_files)
  /\ Iteration(deferred_files[idx + 1], analyse(files, deferred_files[idx + 1], oas_spec))

Next == EnterFor \/ Return \/ ExitFor \/ AnalyseFile

Spec == Init /\ [][Next]_vars

\* ------------------------------------------------------------------------
\* The functions of src/main.py applied to a document as it is on disk
\* ------------------------------------------------------------------------
\* walk_references of a persisted document: the $ref values still to resolve
Collectable(doc) ==
  IF doc = Corrupt THEN <<>>
  ELSE LET l == Load(<<>>, doc) IN walk_references(l.h, l.v).out
\* the value a call of fetch_value_from_ref leaves, as a tree: [err, value]
Located(f) ==
  IF f.err # NoErr THEN [err |-> f.err, value |-> Null]
  ELSE [err |-> NoErr, value |-> Dump(f.h, f.v, {})]
\* fetch_value_from_ref(ref_string, doc)
Locate(doc, ref_string) ==
  LET l == Load(<<>>, doc) IN Located(fetch_value_from_ref(l.h, ref_string, l.v))
\* extract_json_schema_from_oas(doc)
Extract(doc) ==
  LET l == Load(<<>>, doc) IN Dump(l.h, extract_json_schema_from_oas(l.h, l.v), {})
KindOf(ref_value) == evaluate_ref(ref_value).kind

\* ------------------------------------------------------------------------
\* resolve_references: the statements about the scheduler
\* ------------------------------------------------------------------------

\* C1: resolve_references terminates for every finite file set: when a full
\* pass over the deferred set made no progress it stops instead of starting
\* another pass.  A pass that ends with the deferred set, the files and
\* oas_spec as they were when it began is followed by the same pass for ever.
C1_StopsWhenNoProgress ==
  [][(pc = "while" /\ pc' = "for")
     => ~(/\ passes > 0
          /\ pass_start = [deferred_files |-> deferred_files, files |-> files,
                           oas_spec |-> oas_spec])]_vars

\* C2: whenever resolve_references returns normally, no file of the input
\* set still holds a collectable $ref (a file leaves the deferred set only
\* when its own document has none left).
C2_ReturnsWithoutReferences ==
  pc = "done" => \A f \in DOMAIN files : Collectable(files[f]) = <<>>

\* the file an external reference found in the file at path points into
TargetOf(path, ref_link) == referenced_oas_absolute_path(ref_link, path)
\* the bindings of the last analysed file that came from another file
ExternalBindings ==
  {i \in 1..Len(sub_schemas) :
     /\ KindOf(sub_schemas[i].ref) = "EXTERNAL_INTERNAL"
     /\ TargetOf(file_path, sub_schemas[i].ref) \in DOMAIN files \ {file_path}}

\* C3: the fragment bound to an ExternalInternal reference <file>#/s1/.../sn
\* is what locating #/s1/.../sn finds in the whole external document, with
\* or without a top-level properties key.
C3_FragmentLocatedInWholeDocument ==
  \A i \in ExternalBindings :
    Collectable(files[TargetOf(file_path, sub_schemas[i].ref)]) = <<>>
    => sub_schemas[i].sub_schema =
         Locate(files[TargetOf(file_path, sub_schemas[i].ref)],
                sub_schema_location_in_oas(sub_schemas[i].ref)).value

\* every reference of the document is Internal and leads to a map that holds
\* no reference
InternalOnly(doc) ==
  /\ Collectable(doc) # <<>>
  /\ \A i \in 1..Len(Collectable(doc)) :
       /\ KindOf(Collectable(doc)[i]) = "INTERNAL"
       /\ Locate(doc, Collectable(doc)[i]).err = NoErr
       /\ Locate(doc, Collectable(doc)[i]).value.t = "map"
       /\ Collectable(Locate(doc, Collectable(doc)[i]).value) = <<>>

\* C4: a file whose references are all Internal and lead to maps without
\* references is resolved in the pass that first analyses it: no error, no
\* reference left in the persisted document, the referenced definitions
\* unchanged, and the file removed from the deferred set.
C4_InternalResolvesInOnePass ==
  [][(idx' = idx + 1 /\ InternalOnly(files[file_path']))
     => /\ err' = NoErr
        /\ removed'
        /\ Collectable(files'[file_path']) = <<>>
        /\ \A i \in 1..Len(Collectable(files[file_path'])) :
             Locate(files'[file_path'], Collectable(files[file_path'])[i])
               = Locate(files[file_path'], Collectable(files[file_path'])[i])]_vars

\* C5: the reference of a file A into a file B is substituted only in a pass
\* in which B's document holds no reference anywhere; until then A stays
\* in the deferred set.
C5_SubstitutedOnlyFromResolvedFile ==
  merged => \A i \in ExternalBindings :
              sub_schemas[i].sub_schema.t = "map"
              => Collectable(files[TargetOf(file_path, sub_schemas[i].ref)]) = <<>>

\* C6: an External reference (a relative path without #) is bound to the
\* external document's properties sub-object, or to the whole document when
\* it has no properties key.
C6_ExternalReferenceBound ==
  (/\ file_path # NoFile
   /\ err = NoErr
   /\ \A i \in 1..Len(refs_found) :
        /\ KindOf(refs_found[i]) = "EXTERNAL"
        /\ TargetOf(file_path, refs_found[i]) \in DOMAIN files \ {file_path})
  => \A i \in 1..Len(refs_found) :
       \E j \in 1..Len(sub_schemas) :
         /\ sub_schemas[j].ref = refs_found[i]
         /\ sub_schemas[j].sub_schema = Extract(files[TargetOf(file_path, refs_found[i])])

\* C16: in every pass each file that is in the deferred set when the pass
\* begins is loaded and analysed exactly once, in order, whichever files the
\* pass removes from the deferred set: a pass that ran to its end visited
\* exactly the files it began with.
C16_PassVisitsEveryDeferredFile ==
  (pc = "while" /\ passes > 0) => visited = pass_start.deferred_files

\* ------------------------------------------------------------------------
\* walk_and_merge_references called on its own: a reference site, and the
\* one binding of its $ref
\* ------------------------------------------------------------------------
\* resolve_references is not running
SchedulerIdle ==
  /\ files = <<>>
  /\ deferred_files = <<>>
  /\ pc = "idle"
  /\ idx = 0
  /\ oas_spec = Unbound
  /\ err = NoErr
  /\ file_path = NoFile
  /\ refs_found = <<>>
  /\ sub_schemas = <<>>
  /\ merged = FALSE
  /\ removed = FALSE
  /\ passes = 0
  /\ pass_start = NoPass
  /\ visited = <<>>
SchedulerVars == <<files, deferred_files, pc, idx, oas_spec, err, file_path, refs_found,
                   sub_schemas, merged, removed, passes, pass_start, visited>>

\* an entry the site may hold: absent, or the key with one of some values
Entries(key, values) == {<<>>} \cup {<<[k |-> key, v |-> v]>> : v \in values}
MapOfEntries(es) == Map([i \in 1..Len(es) |-> es[i].k], [i \in 1..Len(es) |-> es[i].v])
SiteRef == Str(Pointer(<<<<"x">>>>))
\* the sites: an optional child that holds a title of its own, the $ref, and
\* optional nullable, title and i6RefCollectionName entries
Sites ==
  {MapOfEntries(child \o <<[k |-> cRef, v |-> SiteRef]>> \o nullable \o title \o kept) :
     child \in Entries(<<"c">>, {Map(<<cTitle>>, <<Str(<<"n">>)>>)}),
     nullable \in Entries(cNullable, {Bool(TRUE), Bool(FALSE)}),
     title \in Entries(cTitle, {Str(<<"t">>), Str(<<>>)}),
     kept \in Entries(cI6RefCollectionName, {Map(<<<<"k">>>>, <<Num(1)>>), Str(<<"c">>)})}
\* the values the binding may hold
Fragments ==
  { TypeString,
    Map(<<cType, cNullable>>, <<Str(cString), Bool(TRUE)>>),
    Map(<<cType, cI6RefCollectionName, cTitle>>,
        <<Str(cString), Map(<<<<"f">>>>, <<Num(2)>>), Str(<<"f", "t">>)>>),
    RefTo(Pointer(<<<<"y">>>>)),
    EmptyMap,
    Str(<<"s">>) }

MergeInit ==
  /\ SchedulerIdle
  /\ \E site \in Sites, fragment \in Fragments :
       call = [fn |-> "walk_and_merge_references", arb_object |-> site,
               ref_schemas |-> <<Binding(SiteRef, fragment)>>,
               keys_to_keep |-> <<cI6RefCollectionName>>]
  /\ ret = Pending

\* what walk_and_merge_references left of arb_object, as a tree: [err, value]
merge_returned(arb_object, r) ==
  IF r.err # NoErr THEN [err |-> r.err, value |-> Null]
  ELSE [err |-> NoErr, value |-> Dump(r.h, arb_object, {})]
\* walk_and_merge_references(arb_object, [binding], file_path, keys_to_keep)
merge_call(arb_object, binding, keys_to_keep) ==
  LET l == Load(<<>>, arb_object)
      b == Load(l.h, binding.sub_schema)
  IN merge_returned(l.v, walk_and_merge_references(b.h, l.v, <<Binding(binding.ref, b.v)>>,
                                                   keys_to_keep))

MergeApply ==
  /\ call.fn = "walk_and_merge_references"
  /\ ret = Pending
  /\ ret' = merge_call(call.arb_object, call.ref_schemas[1], call.keys_to_keep)
  /\ UNCHANGED <<call, SchedulerVars>>

MergeSpec == MergeInit /\ [][MergeApply]_vars

\* the lookup of a key in a map of a document: [has, v]
Get(m, key) ==
  IF HasKey(m, key) THEN [has |-> TRUE, v |-> m.v[KeyIndex(m, key)]]
  ELSE [has |-> FALSE, v |-> Null]
\* the call returned, and the binding it was given holds a map to inline
Substituted ==
  /\ call.fn = "walk_and_merge_references"
  /\ ret # Pending
  /\ call.ref_schemas[1].sub_schema.t = "map"
  /\ call.ref_schemas[1].sub_schema.k # <<>>

\* C7: a whitelisted annotation field present at the site with value v is,
\* after the substitution, at the top level of the site with value v, for
\* every v, whatever the fragment holds for that field.
C7_AnnotationFieldsKept ==
  (Substituted /\ ret.err = NoErr) =>
    \A i \in 1..Len(fields_to_keep) :
      HasKey(call.arb_object, fields_to_keep[i])
      => Get(ret.value, fields_to_keep[i]) = Get(call.arb_object, fields_to_keep[i])

\* the keys of the entries of the preserve keys of the site
PreservedEntryKeys ==
  UNION {IF Get(call.arb_object, call.keys_to_keep[i]).v.t = "map"
         THEN Range(Get(call.arb_object, call.keys_to_keep[i]).v.k)
         ELSE {} : i \in 1..Len(call.keys_to_keep)}

\* C8: after a merge the site holds no $ref key, and its keys are those of
\* the fragment, the preserved entries and the captured annotation fields.
C8_SiteHoldsNoRef ==
  (Substituted /\ ret.err = NoErr)
  => /\ ~HasKey(ret.value, cRef)
     /\ Range(call.ref_schemas[1].sub_schema.k) \subseteq Range(ret.value.k)
     /\ Range(ret.value.k) \subseteq
          Range(call.ref_schemas[1].sub_schema.k) \cup Range(call.keys_to_keep)
            \cup PreservedEntryKeys \cup Range(fields_to_keep)

\* C9: a preserve key present at the site with value v is, after the
\* substitution, still a key of the site with value v.
C9_PreservedKeyKept ==
  Substituted =>
    \A i \in 1..Len(call.keys_to_keep) :
      HasKey(call.arb_object, call.keys_to_keep[i])
      => /\ ret.err = NoErr
         /\ Get(ret.value, call.keys_to_keep[i]) = Get(call.arb_object, call.keys_to_keep[i])

\* ------------------------------------------------------------------------
\* fetch_value_from_ref called on its own: a document that holds a value
\* under a path of keys, and the pointer of that path, with or without a
\* trailing list index
\* ------------------------------------------------------------------------
\* the longest sequence a document holds
MaxLen == 2

\* str(n)
RECURSIVE NatStr(_)
NatStr(n) == IF n < 10 THEN <<DigitSeq[n + 1]>> ELSE NatStr(n \div 10) \o <<DigitSeq[(n % 10) + 1]>>
IntStr(n) == IF n < 0 THEN <<"-">> \o NatStr(0 - n) ELSE NatStr(n)

cKG == <<"K", "G">>
Elements == {Str(cKG), Num(10), Num(20), Bool(TRUE)}
\* what the path of keys leads to
Reached ==
  {List(es) : es \in UNION {[1..m -> Elements] : m \in 0..MaxLen}} \cup {Str(cKG), TypeString}
KeyPaths ==
  { <<cEnum>>, <<<<"k">>, cEnum>>, <<cEnum, <<"k">>>>, <<<<"E", "n", "u", "m">>>>, <<<<"k">>>> }
ListIndexes ==
  {[has |-> FALSE, n |-> 0]} \cup {[has |-> TRUE, n |-> n] : n \in (0 - MaxLen)..MaxLen}
\* the document that holds value under the keys
RECURSIVE Nest(_, _)
Nest(keys, value) ==
  IF keys = <<>> THEN value ELSE Map(<<keys[1]>>, <<Nest(Tail(keys), value)>>)
\* "#/k1/.../kn" or "#/k1/.../kn/i"
PointerOf(keys, list_index) ==
  Pointer(IF list_index.has THEN Append(keys, IntStr(list_index.n)) ELSE keys)

FetchInit ==
  /\ SchedulerIdle
  /\ \E keys \in KeyPaths, value \in Reached, list_index \in ListIndexes :
       call = [fn |-> "fetch_value_from_ref", keys |-> keys, list_index |-> list_index,
               ref_string |-> Str(PointerOf(keys, list_index)),
               data_dict |-> Nest(keys, value)]
  /\ ret = Pending

FetchApply ==
  /\ call.fn = "fetch_value_from_ref"
  /\ ret = Pending
  /\ ret' = Locate(call.data_dict, call.ref_string)
  /\ UNCHANGED <<call, SchedulerVars>>

FetchSpec == FetchInit /\ [][FetchApply]_vars

\* the value a path of keys leads to in a document, through maps only:
\* [ok, v]
RECURSIVE ValueAt(_, _)
ValueAt(doc, keys) ==
  IF keys = <<>> THEN [ok |-> TRUE, v |-> doc]
  ELSE IF doc.t = "map" /\ HasKey(doc, keys[1])
  THEN ValueAt(doc.v[KeyIndex(doc, keys[1])], Tail(keys))
  ELSE [ok |-> FALSE, v |-> Null]
\* the call returned; its pointer has a segment enum and a trailing index
EnumIndexCall ==
  /\ call.fn = "fetch_value_from_ref"
  /\ ret # Pending
  /\ call.list_index.has
  /\ \E i \in 1..Len(call.keys) : Lower(call.keys[i]) = cEnum
\* {enum: [s[i]], type: number when every element of s is an integer}
EnumFragmentOf(s, i) ==
  Map(<<cEnum, cType>>,
      <<List(<<s[i + 1]>>),
        Str(IF \A j \in 1..Len(s) : s[j].t = "int" THEN cNumber ELSE cString)>>)

\* C10: for a pointer with a segment enum (in lowercase) and a trailing index
\* i, when the path leads to a sequence s with i in bounds the result is
\* exactly {enum: [s[i]], type: number or string}; when it leads to something
\* that is no sequence the call fails with a TypeError.
C10_EnumIndexFragment ==
  (EnumIndexCall /\ ValueAt(call.data_dict, call.keys).ok)
  => /\ (/\ ValueAt(call.data_dict, call.keys).v.t = "list"
         /\ 0 <= call.list_index.n
         /\ call.list_index.n < Len(ValueAt(call.data_dict, call.keys).v.e))
        => ret = [err |-> NoErr,
                  value |-> EnumFragmentOf(ValueAt(call.data_dict, call.keys).v.e,
                                           call.list_index.n)]
     /\ ValueAt(call.data_dict, call.keys).v.t # "list" => ret.err = "TypeError"
\* the example of the specification: [.., 20] at index 1 gives
\* {enum: [20], type: number}
C10_Witness ==
  /\ EnumIndexCall
  /\ call.list_index.n = 1
  /\ ValueAt(call.data_dict, call.keys).v = List(<<Num(10), Num(20)>>)
  /\ ret = [err |-> NoErr,
            value |-> Map(<<cEnum, cType>>, <<List(<<Num(20)>>), Str(cNumber)>>)]

\* the call returned; its pointer has a trailing index and no segment enum
PlainIndexCall ==
  /\ call.fn = "fetch_value_from_ref"
  /\ ret # Pending
  /\ call.list_index.has
  /\ \A i \in 1..Len(call.keys) : Lower(call.keys[i]) # cEnum

\* C11: for a pointer whose final segment is an integer i and whose path has
\* no segment enum, the final segment is not traversed: the result is the
\* element at position i of the sequence the remaining segments lead to when
\* i is a position of that sequence, and an IndexError for every other i.
C11_IndexedElement ==
  (/\ PlainIndexCall
   /\ ValueAt(call.data_dict, call.keys).ok
   /\ ValueAt(call.data_dict, call.keys).v.t = "list")
  => IF /\ 0 <= call.list_index.n
        /\ call.list_index.n < Len(ValueAt(call.data_dict, call.keys).v.e)
     THEN ret = [err |-> NoErr,
                 value |-> ValueAt(call.data_dict, call.keys).v.e[call.list_index.n + 1]]
     ELSE ret.err = "IndexError"

\* ------------------------------------------------------------------------
\* fetch_value_from_ref called with a reference that need not fit the
\* document: pointers of keys the document lacks, through a list, and
\* reference strings the checks before the traversal are about
\* ------------------------------------------------------------------------
\* the documents
PointerDocs ==
  { \* {"a": {"b": {"type": "string"}}}
    Nest(<<<<"a">>, <<"b">>>>, TypeString),
    \* {"a": {"b": [10, 20]}}
    Nest(<<<<"a">>, <<"b">>>>, List(<<Num(10), Num(20)>>)),
    \* {"a": [{"b": 1}, 5]}
    Nest(<<<<"a">>>>, List(<<Map(<<<<"b">>>>, <<Num(1)>>), Num(5)>>)),
    \* {"a": "KG"}
    Nest(<<<<"a">>>>, Str(cKG)),
    \* {"b": {"a": [10, 20]}}
    Nest(<<<<"b">>, <<"a">>>>, List(<<Num(10), Num(20)>>)) }
\* the keys of the pointer
PointerKeys ==
  { <<>>, <<<<"a">>>>, <<<<"b">>>>, <<<<"a">>, <<"b">>>>, <<<<"b">>, <<"a">>>>,
    <<<<"a">>, <<"b">>, <<"b">>>> }
\* the pointer p as it is, without its #, followed by a space, followed by &,
\* and an integer in place of the string
RefStrings(p) ==
  {Str(p), Str(Drop(p, 1)), Str(p \o <<" ">>), Str(p \o <<"&">>), Num(420)}

PointerInit ==
  /\ SchedulerIdle
  /\ \E keys \in PointerKeys, list_index \in ListIndexes, data_dict \in PointerDocs :
       \E ref_string \in RefStrings(PointerOf(keys, list_index)) :
         call = [fn |-> "fetch_value_from_ref", keys |-> keys, list_index |-> list_index,
                 ref_string |-> ref_string, data_dict |-> data_dict]
  /\ ret = Pending

\* what the call left: [err, value, data_dict], data_dict being the document
\* after the call
fetch_returned(l, f) ==
  [err |-> f.err,
   value |-> IF f.err # NoErr THEN Null ELSE Dump(f.h, f.v, {}),
   data_dict |-> Dump(f.h, l.v, {})]
fetch_loaded(ref_string, l) == fetch_returned(l, fetch_value_from_ref(l.h, ref_string, l.v))
fetch_call(ref_string, data_dict) == fetch_loaded(ref_string, Load(<<>>, data_dict))

PointerApply ==
  /\ call.fn = "fetch_value_from_ref"
  /\ ret = Pending
  /\ ret' = fetch_call(call.ref_string, call.data_dict)
  /\ UNCHANGED <<call, SchedulerVars>>

PointerSpec == PointerInit /\ [][PointerApply]_vars

\* a letter or a digit
IsAlphanumeric(c) == c \in Range(LowerSeq) \cup Range(UpperSeq) \cup Range(DigitSeq)
\* the reference strings to reject: an integer, a string that does not start
\* with #, a string whose last character is no letter and no digit
InvalidReference(ref_string) ==
  \/ ref_string.t = "int"
  \/ /\ ref_string.t = "str"
     /\ \/ ~StartsWith(ref_string.s, <<"#">>)
        \/ ~IsAlphanumeric(ref_string.s[Len(ref_string.s)])
\* the call returned, and its reference string is the valid pointer of
\* call.keys and call.list_index
ValidPointerCall ==
  /\ call.fn = "fetch_value_from_ref"
  /\ ret # Pending
  /\ call.ref_string = Str(PointerOf(call.keys, call.list_index))
  /\ ~InvalidReference(call.ref_string)

\* C12: for a valid pointer the value returned, or indexed, is the one
\* reached by looking up each segment in order as a map key from the root;
\* when a segment is absent at its level, or the value there is no map, the
\* call fails instead of skipping the segment; the document is not modified.
C12_SegmentsLookedUpInOrder ==
  ValidPointerCall
  => /\ ret.data_dict = call.data_dict
     /\ ~ValueAt(call.data_dict, call.keys).ok => ret.err # NoErr
     /\ (ValueAt(call.data_dict, call.keys).ok /\ ~call.list_index.has)
        => /\ ret.err = NoErr
           /\ ret.value = ValueAt(call.data_dict, call.keys).v
     /\ (/\ ValueAt(call.data_dict, call.keys).ok
         /\ call.list_index.has
         /\ ValueAt(call.data_dict, call.keys).v.t = "list"
         /\ 0 <= call.list_index.n
         /\ call.list_index.n < Len(ValueAt(call.data_dict, call.keys).v.e))
        => /\ ret.err = NoErr
           /\ ret.value = ValueAt(call.data_dict, call.keys).v.e[call.list_index.n + 1]

\* C14: a reference string that does not start with #, an integer in place
\* of the string, and a string whose last character is no letter and no
\* digit are rejected with a ValueError, the document untouched.
C14_InvalidReferenceRejected ==
  (/\ call.fn = "fetch_value_from_ref"
   /\ ret # Pending
   /\ InvalidReference(call.ref_string))
  => /\ ret.err = "ValueError"
     /\ ret.data_dict = call.data_dict

\* ------------------------------------------------------------------------
\* evaluate_ref called on its own: every short string over the characters
\* the classification looks at, and values that are no strings
\* ------------------------------------------------------------------------
\* the longest string evaluate_ref is given
MaxRefLen == 3
RefChars == {".", "#", "/", "a"}
RefValues ==
  {Str(s) : s \in UNION {[1..m -> RefChars] : m \in 0..MaxRefLen}}
    \cup {Num(420), Null, Bool(TRUE), List(<<Str(<<".">>)>>), RefTo(<<"#">>)}

EvalInit ==
  /\ SchedulerIdle
  /\ \E ref_value \in RefValues : call = [fn |-> "evaluate_ref", ref_value |-> ref_value]
  /\ ret = Pending

EvalApply ==
  /\ call.fn = "evaluate_ref"
  /\ ret = Pending
  /\ ret' = evaluate_ref(call.ref_value)
  /\ UNCHANGED <<call, SchedulerVars>>

EvalSpec == EvalInit /\ [][EvalApply]_vars

\* C13: evaluate_ref classifies a string that starts with . and contains #
\* as EXTERNAL_INTERNAL, any other string that starts with . as EXTERNAL, a
\* string that starts with # as INTERNAL; it fails with ValueError for every
\* string that starts with neither, and with TypeError for every value that
\* is no string.
C13_Classification ==
  (call.fn = "evaluate_ref" /\ ret # Pending)
  => IF call.ref_value.t # "str" THEN ret.err = "TypeError"
     ELSE IF StartsWith(call.ref_value.s, <<".">>) /\ "#" \in Range(call.ref_value.s)
     THEN ret = [err |-> NoErr, kind |-> "EXTERNAL_INTERNAL"]
     ELSE IF StartsWith(call.ref_value.s, <<".">>)
     THEN ret = [err |-> NoErr, kind |-> "EXTERNAL"]
     ELSE IF StartsWith(call.ref_value.s, <<"#">>)
     THEN ret = [err |-> NoErr, kind |-> "INTERNAL"]
     ELSE ret.err = "ValueError"

\* ------------------------------------------------------------------------
\* walk_dictionary called on its own: maps of up to MaxEntries entries whose
\* values are numbers and nested maps, and values that are no maps
\* ------------------------------------------------------------------------
\* the most entries the outer map holds
MaxEntries == 2
WalkKeys == {<<"a">>, <<"x">>, <<>>}
WalkValues ==
  { Num(0), EmptyMap,
    Map(<<<<"x">>>>, <<Num(1)>>),
    Map(<<<<"X">>>>, <<List(<<>>)>>),
    Map(<<<<"b">>>>, <<Map(<<<<"x">>>>, <<Num(2)>>)>>) }
\* m keys in insertion order, no key twice
WalkKeySeqs(m) == {o \in [1..m -> WalkKeys] : \A i, j \in 1..m : o[i] = o[j] => i = j}
WalkDicts ==
  UNION {{Map(ks, vs) : ks \in WalkKeySeqs(m), vs \in [1..m -> WalkValues]} : m \in 0..MaxEntries}
TargetKeys == {<<"x">>, <<"X">>, <<"b">>, <<>>, <<"z">>}

WalkInit ==
  /\ SchedulerIdle
  /\ \E dictionary \in WalkDicts \cup {List(<<EmptyMap>>), Str(<<"x">>)}, target_key \in TargetKeys :
       call = [fn |-> "walk_dictionary", dictionary |-> dictionary, target_key |-> target_key]
  /\ ret = Pending

\* what walk_dictionary returned: [err, path, value], value as a tree
walk_returned(h, w) ==
  [err |-> w.err, path |-> w.path, value |-> IF w.err # NoErr THEN Null ELSE Dump(h, w.value, {})]
walk_loaded(l, target_key) == walk_returned(l.h, walk_dictionary(l.h, l.v, target_key))
walk_call(dictionary, target_key) == walk_loaded(Load(<<>>, dictionary), target_key)

WalkApply ==
  /\ call.fn = "walk_dictionary"
  /\ ret = Pending
  /\ ret' = walk_call(call.dictionary, call.target_key)
  /\ UNCHANGED <<call, SchedulerVars>>

WalkSpec == WalkInit /\ [][WalkApply]_vars

\* the keys of a map and of its nested maps, depth first in insertion order,
\* each with the chain of keys that leads to it from the root and its value
RECURSIVE KeyChains(_, _, _)
KeyChains(m, i, above) ==
  IF i > Len(m.k) THEN <<>>
  ELSE <<[chain |-> Append(above, m.k[i]), value |-> m.v[i]]>>
       \o (IF m.v[i].t = "map" THEN KeyChains(m.v[i], 1, Append(above, m.k[i])) ELSE <<>>)
       \o KeyChains(m, i + 1, above)
\* k1.k2.....kn
RECURSIVE DotJoined(_)
DotJoined(chain) ==
  IF Len(chain) = 1 THEN chain[1]
  ELSE chain[1] \o <<".">> \o DotJoined(Tail(chain))
IsMatch(entry) == Lower(entry.chain[Len(entry.chain)]) = Lower(call.target_key)
Matches == SelectSeq(KeyChains(call.dictionary, 1, <<>>), IsMatch)

\* C15: walk_dictionary(d, k) on a map returns the dot-joined chain of keys
\* to the first key, depth first in insertion order, whose lowercase equals
\* the lowercase of k, with the value stored there; it raises KeyError
\* exactly when no key at any depth matches, and TypeError when d is no map.
C15_FirstMatchingKey ==
  (call.fn = "walk_dictionary" /\ ret # Pending)
  => IF call.dictionary.t # "map" THEN ret.err = "TypeError"
     ELSE IF Matches = <<>> THEN ret.err = "KeyError"
     ELSE ret = [err |-> NoErr, path |-> DotJoined(Matches[1].chain),
                 value |-> Matches[1].value]
====
